---- MODULE Spec2Model ----
(***************************************************************************)
(* Model of xbox_monitor.py: the bootstrap and the main loop of            *)
(* xbox_monitor_user (status-transition detection and session accounting). *)
(* Timestamps are whole seconds, as int(time.time()) yields them.  The two *)
(* consecutive clock reads of one poll (status_ts, game_ts) are taken to   *)
(* return the same second.                                                 *)
(***************************************************************************)
EXTENDS Integers, Sequences, FiniteSets, TLC

\* ---------------------------------------------------------------- constants
XBOX_CHECK_INTERVAL == 300
XBOX_ACTIVE_CHECK_INTERVAL == 90
OFFLINE_INTERRUPT == 420
TOOL_ALIVE_INTERVAL == 21600
XBOX_ACTIVE_CHECK_SIGNAL_VALUE == 30

\* ------------------------------------------------------------------- bounds
\* number of loop iterations explored
MaxPolls == 3
\* number of iterations whose presence fetch is slow
MaxLate == 1
\* number of iterations that fail (exception or empty status)
MaxFails == 2
\* number of loop iterations explored by the status-only runs
MaxSessionPolls == 5
MaxSinkPolls == 2
MaxAlivePolls == 5
MaxTogglePolls == 2
\* signals delivered in a run, polls of a run with signals
MaxSignals == 2
MaxSignalPolls == 2
\* largest timestamp and longest status of the records put through json
MaxRecordTs == 12
MaxStatusLen == 2
\* devices of a presence payload, and titles over all its devices
MaxDevices == 2
MaxPayloadTitles == 2
\* words of a device type code
MaxCodeWords == 2
\* wall-clock second at which the monitor is started
BootTime == 1000

\* ------------------------------------------------------------------- inputs
Statuses == {"online", "away", "offline"}
Games == {"", "GameA", "GameB"}
\* seconds a presence fetch may take; with the offline sleep the slow ones put
\* the next poll exactly on, and one second past, the interruption threshold
FetchDelays == {0, OFFLINE_INTERRUPT - XBOX_CHECK_INTERVAL,
                OFFLINE_INTERRUPT - XBOX_CHECK_INTERVAL + 1}
\* timestamps a record written by an earlier run may hold
PastRecordTs == {BootTime - 500, BootTime - 100}
\* last_seen.timestamp of a presence: absent, a text strptime rejects, or the
\* text of a UTC time (held as its epoch seconds)
LastSeenStamps == {<<"none">>, <<"garbled">>,
                   <<"utc", BootTime - 600>>, <<"utc", BootTime - 300>>}
\* int(datetime.timestamp()) of what convert_utc_str_to_tz_datetime returns:
\* datetime.fromtimestamp(0) where parsing raised
convert_utc_str_to_tz_datetime(stamp) ==
    IF stamp[1] = "utc" THEN stamp[2] ELSE 0
\* lastonline_ts as xbox_process_presence_class returns it (0 without a
\* timestamp)
presence_lastonline_ts(stamp) ==
    IF stamp[1] = "none" THEN 0 ELSE convert_utc_str_to_tz_datetime(stamp)
\* last-seen timestamps the initial presence may carry
LastOnlineTs == {presence_lastonline_ts(stamp) : stamp \in LastSeenStamps}

\* what str(e) of a failed fetch looks like to the auth-key test: it mentions
\* "validation", "auth" or "token", or it does not
ErrKinds == {"auth", "other"}
\* values the profile lookup may give for the XUID (0: none)
XuidValues == {0, 7}
\* the sink that fails in an iteration, if it is used there: opening the
\* last-status file, dumping into it, appending the CSV row, sending an email
SinkFailures == {"none", "record_open", "record_dump", "csv", "email"}
\* TOOL_ALIVE_INTERVAL as edited in the configuration section for frequent
\* alive checks: one every second offline poll
ShortAliveInterval == 2 * XBOX_CHECK_INTERVAL

\* the snapshots of the runs that reach the alive check
AliveStatuses == {"online", "offline"}
AliveGames == {"", "GameA"}

\* the last-status file: missing, present but not loadable (or an empty list),
\* or the [timestamp, status] list json.dump wrote
NoFile == <<"absent">>
BadFile == <<"unreadable">>
Records == PastRecordTs \X Statuses
FileStates == {NoFile, BadFile} \cup Records
IsRecord(f) == Len(f) = 2

VARIABLES
    pc,                                   \* "init", "loop", "exit1"
    now,                                  \* wall clock
    polls, late, fails,                   \* bound counters
    status, game_name,                    \* the loop's current snapshot
    status_old, game_name_old,
    status_ts, status_ts_old,
    status_online_start_ts, status_online_start_ts_old,
    game_ts_old, game_total_ts, games_number,
    game_total_after_offline_counted,
    alive_counter, sleep_interval,
    file,                                 \* content of the last-status file
    wrote,                                \* the last step wrote the file
    outcome,                              \* what the last step was
    lastonline_ts,                        \* read by the bootstrap only
    last_status_ts, last_status,          \* read by the bootstrap only
    start_before_offline,                 \* session start seen when last going offline
    interruptions,                        \* short interruptions the session resumed over
    branch,                               \* status branch of the last step: "fresh",
                                          \* "resumed", "offline" or ""
    status_was_for,                       \* duration reported by the last status change
    xuid,
    email_sent,
    \* configuration: function arguments and module globals
    error_notification, tool_alive_interval, status_notification,
    active_inactive_notification, game_change_notification, csv_enabled,
    game_was_for,                         \* duration reported by the last activity
                                          \* change or stop
    error_kind,                           \* how the last step's failure looks to the
                                          \* auth-key test, "" if it did not fail
    \* what the last step did to the outside
    mails,                                \* emails it sent: "error", "status", "game"
    csv_written,                          \* it appended a CSV row
    sink_failed,                          \* the sink that failed in it, or "none"
    alive_fired,                          \* it printed the alive check
    offline_streak,                       \* successful offline polls since the last
                                          \* change, non-offline poll or alive check
    streak_mails,                         \* error emails sent since the last
                                          \* successful poll
    printed,                              \* summaries it printed: "status", "game"
    online_was_for,                       \* time available it reported on going
                                          \* offline, 0 if none
    played_total,                         \* total played time it reported on going
                                          \* offline, -1 if none
    active_check_interval,                \* the global XBOX_ACTIVE_CHECK_INTERVAL now
    signals,                              \* bound counter
    \* arguments and results of the functions checked on their own
    devices,                              \* a payload's devices, each a list of
                                          \* titles <<name, placement>>
    platform,                             \* a device code (the names it contains),
                                          \* then its label
    file_text                             \* the characters of a last-status file

vars == <<pc, now, polls, late, fails, status, game_name, status_old,
          game_name_old, status_ts, status_ts_old, status_online_start_ts,
          status_online_start_ts_old, game_ts_old, game_total_ts, games_number,
          game_total_after_offline_counted, alive_counter, sleep_interval,
          file, wrote, outcome, lastonline_ts, last_status_ts,
          last_status, start_before_offline,
                   interruptions, branch, status_was_for, xuid, email_sent,
          error_notification, tool_alive_interval, status_notification,
          active_inactive_notification, game_change_notification, csv_enabled,
          mails, csv_written, sink_failed, alive_fired, offline_streak,
          streak_mails, game_was_for, error_kind, printed, online_was_for,
          played_total, active_check_interval, signals, devices, platform,
          file_text>>

config == <<error_notification, tool_alive_interval, status_notification,
            active_inactive_notification, game_change_notification,
            csv_enabled, active_check_interval>>

\* what only the functions checked on their own, and the signals, touch
aside == <<signals, devices, platform, file_text>>

\* the fields of the session state kept across polls
session == <<status_old, game_name_old, status_ts_old, status_online_start_ts,
             status_online_start_ts_old, game_ts_old, game_total_ts,
             games_number, game_total_after_offline_counted>>

InitState ==
    /\ pc = "init"
    /\ now = BootTime
    /\ polls = 0 /\ late = 0 /\ fails = 0
    /\ status = "" /\ game_name = ""
    /\ status_old = "" /\ game_name_old = ""
    /\ status_ts = 0 /\ status_ts_old = 0
    /\ status_online_start_ts = 0 /\ status_online_start_ts_old = 0
    /\ game_ts_old = 0 /\ game_total_ts = 0 /\ games_number = 0
    /\ game_total_after_offline_counted = FALSE
    /\ alive_counter = 0 /\ sleep_interval = 0
    /\ wrote = FALSE
    /\ outcome = "none"
    /\ lastonline_ts = 0
    /\ last_status_ts = 0 /\ last_status = ""
    /\ start_before_offline = 0
    /\ interruptions = 0
    /\ branch = "" /\ status_was_for = 0
    /\ xuid = 0 /\ game_was_for = 0 /\ error_kind = ""
    /\ email_sent = FALSE
    /\ mails = {} /\ csv_written = FALSE /\ sink_failed = "none"
    /\ alive_fired = FALSE /\ offline_streak = 0 /\ streak_mails = 0
    /\ printed = {} /\ online_was_for = 0 /\ played_total = -1
    /\ signals = 0

\* the command line's defaults: error emails on, the other emails and the CSV
\* file off
Init ==
    /\ InitState
    /\ file \in FileStates
    /\ devices = <<>> /\ platform = <<>> /\ file_text = <<>>
    /\ error_notification = TRUE
    /\ tool_alive_interval = TOOL_ALIVE_INTERVAL
    /\ status_notification = FALSE
    /\ active_inactive_notification = FALSE
    /\ game_change_notification = FALSE
    /\ csv_enabled = FALSE
    /\ active_check_interval = XBOX_ACTIVE_CHECK_INTERVAL

\* with or without -e
InitErrors ==
    /\ InitState
    /\ file \in FileStates
    /\ devices = <<>> /\ platform = <<>> /\ file_text = <<>>
    /\ error_notification \in BOOLEAN
    /\ tool_alive_interval = TOOL_ALIVE_INTERVAL
    /\ status_notification = FALSE
    /\ active_inactive_notification = FALSE
    /\ game_change_notification = FALSE
    /\ csv_enabled = FALSE
    /\ active_check_interval = XBOX_ACTIVE_CHECK_INTERVAL

\* -b, -g and -s given
InitSinks ==
    /\ InitState
    /\ file \in FileStates
    /\ devices = <<>> /\ platform = <<>> /\ file_text = <<>>
    /\ error_notification = TRUE
    /\ tool_alive_interval = TOOL_ALIVE_INTERVAL
    /\ status_notification = TRUE
    /\ active_inactive_notification = FALSE
    /\ game_change_notification = TRUE
    /\ csv_enabled = TRUE
    /\ active_check_interval = XBOX_ACTIVE_CHECK_INTERVAL

\* any of -s, -a and -g given or not
InitToggles ==
    /\ InitState
    /\ file \in {NoFile} \cup Records
    /\ devices = <<>> /\ platform = <<>> /\ file_text = <<>>
    /\ error_notification = TRUE
    /\ tool_alive_interval = TOOL_ALIVE_INTERVAL
    /\ status_notification \in BOOLEAN
    /\ active_inactive_notification \in BOOLEAN
    /\ game_change_notification \in BOOLEAN
    /\ csv_enabled = FALSE
    /\ active_check_interval = XBOX_ACTIVE_CHECK_INTERVAL

\* values of XBOX_ACTIVE_CHECK_INTERVAL at start: the default, or one given
\* with -k
ActiveCheckIntervals ==
    {XBOX_ACTIVE_CHECK_INTERVAL, XBOX_ACTIVE_CHECK_SIGNAL_VALUE,
     XBOX_ACTIVE_CHECK_SIGNAL_VALUE + 15}

\* the handlers are registered before the monitor starts
InitSignals ==
    /\ InitState
    /\ file = NoFile
    /\ devices = <<>> /\ platform = <<>> /\ file_text = <<>>
    /\ error_notification = TRUE
    /\ tool_alive_interval = TOOL_ALIVE_INTERVAL
    /\ status_notification = FALSE
    /\ active_inactive_notification = FALSE
    /\ game_change_notification = FALSE
    /\ csv_enabled = FALSE
    /\ active_check_interval \in ActiveCheckIntervals

\* TOOL_ALIVE_INTERVAL shortened in the configuration section
InitHeartbeat ==
    /\ InitState
    /\ file \in FileStates
    /\ devices = <<>> /\ platform = <<>> /\ file_text = <<>>
    /\ error_notification = TRUE
    /\ tool_alive_interval = ShortAliveInterval
    /\ status_notification = FALSE
    /\ active_inactive_notification = FALSE
    /\ game_change_notification = FALSE
    /\ csv_enabled = FALSE
    /\ active_check_interval = XBOX_ACTIVE_CHECK_INTERVAL

\* ---------------------------------------------------------------- bootstrap
\* last_status_ts / last_status as loaded from the file (0 / "" when the file
\* is missing, cannot be loaded or holds nothing)
LoadedTs(f) == IF IsRecord(f) THEN f[1] ELSE 0
LoadedStatus(f) == IF IsRecord(f) THEN f[2] ELSE ""

BootStatusTs_ZeroAdopted(t, st, lo, lts, lst) ==
    IF lts > 0
    THEN IF st = "offline"
         THEN (IF lo >= lts THEN lo ELSE lts)
         ELSE IF st = lst THEN lts ELSE t
    ELSE IF st = "offline" THEN lo ELSE t

BootStatusTs_NeverAdopt(t, st, lo, lts, lst) ==
    IF lts > 0
    THEN IF st = "offline"
         THEN IF lo # 0
              THEN (IF lo >= lts THEN lo ELSE lts)
              ELSE lts
         ELSE t
    ELSE IF lo # 0 /\ st = "offline" THEN lo ELSE t

BootStatusTs_LastSeenOnly(t, st, lo, lts, lst) ==
    IF lts > 0
    THEN IF st = "offline"
         THEN IF lo # 0 THEN lo ELSE lts
         ELSE IF st = lst THEN lts ELSE t
    ELSE IF lo # 0 /\ st = "offline" THEN lo ELSE t

\* status_ts_old at the end of the bootstrap
BootStatusTs(t, st, lo, lts, lst) ==
    IF lts > 0
    THEN IF st = "offline"
         THEN IF lo # 0
              THEN (IF lo >= lts THEN lo ELSE lts)
              ELSE lts
         ELSE IF st = lst THEN lts ELSE t
    ELSE IF lo # 0 /\ st = "offline" THEN lo ELSE t

\* status_online_start_ts (and its _old copy) at the end of the bootstrap
BootOnlineStart(t, st, lts, lst) ==
    IF st # "offline"
    THEN IF lts > 0 /\ st = lst THEN lts ELSE t
    ELSE 0

BootWrites_FirstRunOnly(st, lts, lst) == lts = 0

BootWrites_NoSeed(st, lts, lst) == lts > 0 /\ st # lst

\* the bootstrap saves [status_ts_old, status] to the file
BootWrites(st, lts, lst) ==
    \/ lts > 0 /\ st # lst
    \/ lts = 0

\* the initial in-game check
BootInGame(st, g) == st # "offline" /\ g # ""

InitOK_AnyStatus(profile, x, presence, st) ==
    profile /\ x # 0 /\ presence

\* the profile lookup gave a profile with a nonzero XUID, the initial presence
\* fetch returned and its status is not empty
InitOK(profile, x, presence, st) ==
    profile /\ x # 0 /\ presence /\ st # ""

Bootstrap(x, st, g, lo) ==
    LET lts == LoadedTs(file)
        lst == LoadedStatus(file)
        sts == BootStatusTs(now, st, lo, lts, lst)
    IN  /\ pc = "init"
        /\ InitOK(TRUE, x, TRUE, st)
        /\ xuid' = x
        /\ email_sent' = FALSE
        /\ mails' = {}
        /\ csv_written' = (csv_enabled /\ st # lst)
        /\ sink_failed' = "none"
        /\ alive_fired' = FALSE
        /\ printed' = {} /\ online_was_for' = 0 /\ played_total' = -1
        /\ UNCHANGED <<config, aside, offline_streak, streak_mails, game_was_for,
                       error_kind>>
        /\ pc' = "loop"
        /\ status' = st /\ game_name' = g
        /\ status_ts_old' = sts
        /\ status_online_start_ts' = BootOnlineStart(now, st, lts, lst)
        /\ status_online_start_ts_old' = BootOnlineStart(now, st, lts, lst)
        /\ wrote' = BootWrites(st, lts, lst)
        /\ file' = IF BootWrites(st, lts, lst) THEN <<sts, st>> ELSE file
        /\ game_ts_old' = IF BootInGame(st, g) THEN now ELSE game_ts_old
        /\ games_number' = IF BootInGame(st, g) THEN games_number + 1
                           ELSE games_number
        /\ status_old' = st /\ game_name_old' = g
        /\ alive_counter' = 0
        /\ lastonline_ts' = lo
        /\ last_status_ts' = lts /\ last_status' = lst
        /\ outcome' = "boot"
        /\ branch' = "" /\ status_was_for' = 0
        /\ UNCHANGED <<now, polls, late, fails, status_ts, game_total_ts,
                       game_total_after_offline_counted, sleep_interval,
                       start_before_offline,
                   interruptions>>

\* the profile lookup fails, the XUID is 0, the initial presence fetch raises
\* or the initial status is empty: sys.exit(1)
InitFail(profile, x, presence, st) ==
    /\ pc = "init"
    /\ ~InitOK(profile, x, presence, st)
    /\ xuid' = IF profile THEN x ELSE 0
    /\ UNCHANGED <<config, aside, printed, online_was_for, played_total,
                   email_sent, mails, csv_written, sink_failed,
                   alive_fired, offline_streak, streak_mails, game_was_for,
                   error_kind>>
    /\ pc' = "exit1"
    /\ outcome' = "init_failed"
    /\ branch' = "" /\ status_was_for' = 0
    /\ wrote' = FALSE
    /\ UNCHANGED <<now, polls, late, fails, status, game_name, status_old,
                   game_name_old, status_ts, status_ts_old,
                   status_online_start_ts, status_online_start_ts_old,
                   game_ts_old, game_total_ts, games_number,
                   game_total_after_offline_counted, alive_counter,
                   sleep_interval, file, lastonline_ts,
                   last_status_ts, last_status, start_before_offline,
                   interruptions>>

\* ------------------------------------------------- the last-status file's text
\* characters a status may hold: a plain one and the two json escapes
StatusChars == {"a", "\"", "\\"}
RECURSIVE SeqsUpTo(_, _)
SeqsUpTo(S, n) ==
    IF n = 0 THEN {<<>>}
    ELSE LET shorter == SeqsUpTo(S, n - 1)
         IN  shorter \cup {Append(q, c) : q \in shorter, c \in S}
\* [timestamp, status] lists, the status a sequence of characters
RecordValues == (0 .. MaxRecordTs) \X SeqsUpTo(StatusChars, MaxStatusLen)

DigitChars == <<"0", "1", "2", "3", "4", "5", "6", "7", "8", "9">>
DigitOf(c) == CHOOSE d \in 0 .. 9 : DigitChars[d + 1] = c
IsDigit(c) == \E d \in 0 .. 9 : DigitChars[d + 1] = c
Whitespace == {" ", "\n"}

\* json's text of a non-negative int
RECURSIVE Decimal(_)
Decimal(n) ==
    IF n < 10 THEN <<DigitChars[n + 1]>>
    ELSE Decimal(n \div 10) \o <<DigitChars[(n % 10) + 1]>>

Escape_None(str) == str

\* json's text of the inside of a string
RECURSIVE Escape(_)
Escape(str) ==
    IF str = <<>> THEN <<>>
    ELSE (IF Head(str) \in {"\"", "\\"} THEN <<"\\", Head(str)>>
          ELSE <<Head(str)>>) \o Escape(Tail(str))

\* json.dump(last_status_to_save, f, indent=2)
json_dump(rec) ==
    <<"[", "\n", " ", " ">> \o Decimal(rec[1])
        \o <<",", "\n", " ", " ", "\"">> \o Escape(rec[2])
        \o <<"\"", "\n", "]">>

\* the same list as a writer without indentation puts it
CompactText(rec) ==
    <<"[">> \o Decimal(rec[1]) \o <<",", "\"">> \o Escape(rec[2])
        \o <<"\"", "]">>

RECURSIVE SkipWhitespace(_)
SkipWhitespace(txt) ==
    IF txt # <<>> /\ Head(txt) \in Whitespace THEN SkipWhitespace(Tail(txt))
    ELSE txt

\* the int at the head of txt: <<digits read, value, rest>>
RECURSIVE ReadInt(_, _, _)
ReadInt(txt, n, v) ==
    IF txt # <<>> /\ IsDigit(Head(txt))
    THEN ReadInt(Tail(txt), n + 1, 10 * v + DigitOf(Head(txt)))
    ELSE <<n, v, txt>>

\* the string whose opening quote was just read: <<closed, value, rest>>
RECURSIVE ReadString(_, _)
ReadString(txt, str) ==
    IF txt = <<>> THEN <<FALSE, str, txt>>
    ELSE IF Head(txt) = "\"" THEN <<TRUE, str, Tail(txt)>>
    ELSE IF Head(txt) = "\\"
         THEN IF Len(txt) >= 2 /\ txt[2] \in {"\"", "\\"}
              THEN ReadString(Tail(Tail(txt)), Append(str, txt[2]))
              ELSE <<FALSE, str, txt>>
    ELSE ReadString(Tail(txt), Append(str, Head(txt)))

\* json.load(f) of a two-element list, <<>> where it raises (last_status_read
\* stays [])
json_load(txt) ==
    LET t1 == SkipWhitespace(txt)
    IN  IF t1 = <<>> \/ Head(t1) # "[" THEN <<>>
        ELSE
        LET num == ReadInt(SkipWhitespace(Tail(t1)), 0, 0)
            t2 == SkipWhitespace(num[3])
        IN  IF num[1] = 0 \/ t2 = <<>> \/ Head(t2) # "," THEN <<>>
            ELSE
            LET t3 == SkipWhitespace(Tail(t2))
            IN  IF t3 = <<>> \/ Head(t3) # "\"" THEN <<>>
                ELSE
                LET str == ReadString(Tail(t3), <<>>)
                    t4 == SkipWhitespace(str[3])
                IN  IF ~str[1] \/ t4 = <<>> \/ Head(t4) # "]"
                       \/ SkipWhitespace(Tail(t4)) # <<>>
                    THEN <<>>
                    ELSE <<num[2], str[2]>>

\* the monitor before its first fetch, default options, no file
InitIdle ==
    /\ InitState
    /\ error_notification = TRUE
    /\ tool_alive_interval = TOOL_ALIVE_INTERVAL
    /\ status_notification = FALSE
    /\ active_inactive_notification = FALSE
    /\ game_change_notification = FALSE
    /\ csv_enabled = FALSE
    /\ active_check_interval = XBOX_ACTIVE_CHECK_INTERVAL
    /\ file = NoFile

\* a file this program wrote, one another writer wrote, one cut short
InitRecord ==
    /\ InitIdle
    /\ devices = <<>> /\ platform = <<>>
    /\ file_text \in {json_dump(rec) : rec \in RecordValues}
                        \cup {CompactText(rec) : rec \in RecordValues}
                        \cup {<<"[", "\n">>}

\* everything but the file's text and what the load leaves
record_rest == <<now, polls, late, fails, status, game_name, session,
                 status_ts, alive_counter, sleep_interval, file, wrote,
                 lastonline_ts, start_before_offline, interruptions, branch,
                 status_was_for, xuid, email_sent, config, game_was_for,
                 error_kind, mails, csv_written, sink_failed, alive_fired,
                 offline_streak, streak_mails, printed, online_was_for,
                 played_total, signals, devices, platform>>

\* the bootstrap reads the file
LoadRecord ==
    LET last_status_read == json_load(file_text)
    IN  /\ pc = "init"
        /\ last_status_ts' = IF last_status_read # <<>>
                             THEN last_status_read[1] ELSE 0
        /\ last_status' = IF last_status_read # <<>>
                          THEN last_status_read[2] ELSE <<>>
        /\ pc' = IF last_status_read # <<>> THEN "loaded" ELSE "not_loaded"
        /\ outcome' = "load"
        /\ UNCHANGED <<file_text, record_rest>>

\* the values just loaded are saved
SaveRecord ==
    /\ pc = "loaded"
    /\ file_text' = json_dump(<<last_status_ts, last_status>>)
    /\ pc' = "saved"
    /\ outcome' = "save"
    /\ UNCHANGED <<last_status_ts, last_status, record_rest>>

NextRecord == LoadRecord \/ SaveRecord

SpecRecord == InitRecord /\ [][NextRecord]_vars

\* ------------------------------------------------ the presence's devices
TitleNames == {"Online", "Home", "Xbox App", "GameA", "GameB"}
Placements == {"Full", "Background"}
\* a title is <<name, placement>>
TitleKinds == TitleNames \X Placements

\* payloads of at most nd devices holding at most nt titles together
RECURSIVE Payloads(_, _)
Payloads(nd, nt) ==
    IF nd = 0 THEN {<<>>}
    ELSE {<<>>} \cup UNION {{<<dev>> \o rest :
                                 dev \in [1 .. k -> TitleKinds],
                                 rest \in Payloads(nd - 1, nt - k)} :
                            k \in 0 .. nt}

Qualifies(title) ==
    title[1] \notin {"Online", "Home", "Xbox App"} /\ title[2] # "Background"

\* for title in titles_class: if ...: game_name = title.name; break
RECURSIVE FirstQualifying(_)
FirstQualifying(titles) ==
    IF titles = <<>> THEN ""
    ELSE IF Qualifies(Head(titles)) THEN Head(titles)[1]
    ELSE FirstQualifying(Tail(titles))

\* the game_name xbox_process_presence_class returns: the titles looked at
\* are those of devices_class[0]
process_game_name(devs) ==
    IF devs = <<>> THEN "" ELSE FirstQualifying(devs[1])

InitPresence ==
    /\ InitIdle
    /\ platform = <<>> /\ file_text = <<>>
    /\ devices \in Payloads(MaxDevices, MaxPayloadTitles)

\* the fetched presence is put through xbox_process_presence_class
ProcessPresence ==
    /\ pc = "init"
    /\ game_name' = process_game_name(devices)
    /\ pc' = "normalized"
    /\ outcome' = "normalized"
    /\ UNCHANGED <<now, polls, late, fails, status, session, status_ts,
                   alive_counter, sleep_interval, file, wrote, lastonline_ts,
                   last_status_ts, last_status, start_before_offline,
                   interruptions, branch, status_was_for, xuid, email_sent,
                   config, game_was_for, error_kind, mails, csv_written,
                   sink_failed, alive_fired, offline_streak, streak_mails,
                   printed, online_was_for, played_total, aside>>

NextPresence == ProcessPresence

SpecPresence == InitPresence /\ [][NextPresence]_vars

\* ------------------------------------------------------ device type codes
\* a code is a sequence of words as the API spells them; str.lower() of a word
CodeWords == {"Scarlett", "Anaconda", "Starkville", "Lockhart", "Edith",
              "Scorpio", "Edmonton", "Durango", "Xenon", "Windows", "iOS",
              "Android", "Nintendo"}
Lower(word) ==
    CASE word = "Scarlett" -> "scarlett"
      [] word = "Anaconda" -> "anaconda"
      [] word = "Starkville" -> "starkville"
      [] word = "Lockhart" -> "lockhart"
      [] word = "Edith" -> "edith"
      [] word = "Scorpio" -> "scorpio"
      [] word = "Edmonton" -> "edmonton"
      [] word = "Durango" -> "durango"
      [] word = "Xenon" -> "xenon"
      [] word = "Windows" -> "windows"
      [] word = "iOS" -> "ios"
      [] word = "Android" -> "android"
      [] OTHER -> "nintendo"
DeviceCodes == UNION {[1 .. k -> CodeWords] : k \in 0 .. MaxCodeWords}

\* name in str(platform).lower()
Contains(code, name) == \E i \in 1 .. Len(code) : Lower(code[i]) = name

\* the value of ("a" or "b" or ...): its first non-empty operand, the last
\* one if all are empty
RECURSIVE PyOr(_)
PyOr(names) ==
    IF Len(names) = 1 \/ Head(names) # "" THEN Head(names)
    ELSE PyOr(Tail(names))

\* xbox_get_platform_mapping(platform, short); a label is a one-word code
xbox_get_platform_mapping(code, short) ==
    IF Contains(code, PyOr(<<"scarlett", "anaconda", "starkville",
                             "lockhart", "edith">>))
    THEN (IF short THEN <<"XSX">> ELSE <<"Xbox One Series X/S">>)
    ELSE IF Contains(code, PyOr(<<"scorpio", "edmonton">>))
    THEN (IF short THEN <<"XONEX">> ELSE <<"Xbox One X/S">>)
    ELSE IF Contains(code, "durango")
    THEN (IF short THEN <<"XONE">> ELSE <<"Xbox One">>)
    ELSE IF Contains(code, "xenon")
    THEN (IF short THEN <<"X360">> ELSE <<"Xbox 360">>)
    ELSE IF Contains(code, "windows") THEN <<"Windows">>
    ELSE IF Contains(code, "ios") THEN <<"iPhone/iPad">>
    ELSE IF Contains(code, "android")
    THEN (IF short THEN code ELSE <<"Android Phone/Tablet">>)
    ELSE code

InitPlatform ==
    /\ InitIdle
    /\ devices = <<>> /\ file_text = <<>>
    /\ platform \in DeviceCodes

\* platform = xbox_get_platform_mapping(platform, platform_short)
MapPlatform(short) ==
    /\ pc = "init"
    /\ platform' = xbox_get_platform_mapping(platform, short)
    /\ pc' = "mapped"
    /\ outcome' = IF short THEN "short" ELSE "long"
    /\ UNCHANGED <<now, polls, late, fails, status, game_name, session,
                   status_ts, alive_counter, sleep_interval, file, wrote,
                   lastonline_ts, last_status_ts, last_status,
                   start_before_offline, interruptions, branch,
                   status_was_for, xuid, email_sent, config, game_was_for,
                   error_kind, mails, csv_written, sink_failed, alive_fired,
                   offline_streak, streak_mails, printed, online_was_for,
                   played_total, signals, devices, file_text>>

NextPlatform == \E short \in BOOLEAN : MapPlatform(short)

SpecPlatform == InitPlatform /\ [][NextPlatform]_vars

\* ---------------------------------------------------------------- main loop
\* lastonline_ts, last_status_ts and last_status are never read once the loop
\* runs; the model forgets them at the first poll
BootLocalsDead ==
    /\ lastonline_ts' = 0
    /\ last_status_ts' = 0
    /\ last_status' = ""

\* a fetch taking d seconds is within the bounds
CanPoll(d) ==
    /\ pc = "loop"
    /\ d # 0 => late < MaxLate

SleepFor_IgnoresSignals(st) ==
    IF st # "" /\ st # "offline" THEN XBOX_ACTIVE_CHECK_INTERVAL
    ELSE XBOX_CHECK_INTERVAL

SleepFor_AlwaysOffline(st) == XBOX_CHECK_INTERVAL

SleepFor_ActiveUnlessEmpty(st) ==
    IF st # "" THEN active_check_interval ELSE XBOX_CHECK_INTERVAL

\* the sleep at the end of an iteration
SleepFor(st) ==
    IF st # "" /\ st # "offline" THEN active_check_interval
    ELSE XBOX_CHECK_INTERVAL

StatusChanged_BoundaryOnly(so, st) ==
    st # so /\ (so = "offline" \/ st = "offline")

\* "Player status changed" / "Player started/stopped/changed the game"
StatusChanged(so, st) == st # so
GameChanged_StartStopOnly(go, g) == g # go /\ (go = "" \/ g = "")

GameChanged(go, g) == g # go

GotOnline(so, st) == so = "offline" /\ st # "" /\ st # "offline"
GotOffline_AnyChange(so, st) == so # "" /\ so # "offline"

GotOffline_OnlineOnly(so, st) == so = "online" /\ st = "offline"
GotOffline(so, st) == so # "" /\ so # "offline" /\ st = "offline"

FreshSession_AtThreshold(gap, prev_start) ==
    gap >= OFFLINE_INTERRUPT \/ prev_start = 0
FreshSession_Always(gap, prev_start) == TRUE

\* a new session starts / the previous one is resumed when the user got online
FreshSession(gap, prev_start) == gap > OFFLINE_INTERRUPT \/ prev_start = 0
ResumeSession(gap, prev_start) == gap <= OFFLINE_INTERRUPT /\ prev_start > 0

OfflineFold_Never(n, go, g) == FALSE

\* the got-offline block adds the running game's time to the total
OfflineFold(n, go, g) == n > 0 /\ go # "" /\ g = ""

StoppedFold_WhenCounted(counted) == counted

StoppedFold_Always(counted) == TRUE

\* the stopped-playing branch adds the game's time to the total
StoppedFold(counted) == ~counted

\* the alive check fires
AliveDue_AnyStatus(c, st) ==
    c * XBOX_CHECK_INTERVAL >= tool_alive_interval

AliveDue(c, st) ==
    /\ c * XBOX_CHECK_INTERVAL >= tool_alive_interval
    /\ st = "offline" \/ st = ""

ErrorMailDue_EveryFailure(kind, sent) ==
    kind = "auth" /\ error_notification

\* the error email of a failed poll: the error text looks like an auth error,
\* error emails are on and none was sent since the last good poll
ErrorMailDue(kind, sent) ==
    kind = "auth" /\ error_notification /\ ~sent

\* the status email of a poll that saw the status change
StatusMailDue(changed, act_inact_flag) ==
    changed /\ (status_notification
                   \/ (active_inactive_notification /\ act_inact_flag))

GameMailDue_Always(gchanged) == gchanged

\* the activity email of a poll that saw the activity change
GameMailDue(gchanged) == gchanged /\ game_change_notification

\* what the last-status file holds after the attempt to write rec: open() may
\* fail and leave it alone, json.dump may fail and leave it truncated
FileAfterWrite(f, rec, fail) ==
    IF fail = "record_open" THEN f
    ELSE IF fail = "record_dump" THEN BadFile
    ELSE rec

\* the sink of this iteration that fails, if the failing sink is used in it
SinkFailed(fail, writes, csv, mailing) ==
    IF fail \in {"record_open", "record_dump"} /\ writes THEN fail
    ELSE IF fail = "csv" /\ csv THEN fail
    ELSE IF fail = "email" /\ mailing THEN fail
    ELSE "none"

AfterSink_RecordUncaught(failed) ==
    IF failed \in {"record_open", "record_dump"} THEN "crashed" ELSE "loop"

\* where the iteration goes after a sink failed: every failure is caught (the
\* try/except around the file write and around the CSV write, send_email's own)
AfterSink(failed) == "loop"

PollFail_ClearsStatus(kind, d, fail) ==
    LET sends == ErrorMailDue(kind, email_sent)
        failed == SinkFailed(fail, FALSE, FALSE, sends)
    IN  /\ CanPoll(d)
        /\ fails < MaxFails
        /\ polls' = polls + 1
        /\ fails' = fails + 1
        /\ late' = IF d # 0 THEN late + 1 ELSE late
        /\ status' = ""
        /\ sleep_interval' = SleepFor("")
        /\ now' = now + d + SleepFor("")
        /\ email_sent' = (email_sent \/ sends)
        /\ mails' = IF sends THEN {"error"} ELSE {}
        /\ streak_mails' = IF sends THEN streak_mails + 1 ELSE streak_mails
        /\ sink_failed' = failed
        /\ pc' = AfterSink(failed)
        /\ csv_written' = FALSE
        /\ alive_fired' = FALSE
        /\ wrote' = FALSE
        /\ outcome' = "fetch_error"
        /\ error_kind' = kind
        /\ branch' = "" /\ status_was_for' = 0 /\ game_was_for' = 0
        /\ printed' = {} /\ online_was_for' = 0 /\ played_total' = -1
        /\ BootLocalsDead
        /\ UNCHANGED <<game_name, status_old, game_name_old,
                       status_ts, status_ts_old, status_online_start_ts,
                       status_online_start_ts_old, game_ts_old, game_total_ts,
                       games_number, game_total_after_offline_counted,
                       alive_counter, file, start_before_offline,
                       interruptions, xuid, config, aside, offline_streak>>

\* the presence fetch raises (network, auth, malformed payload)
PollFail(kind, d, fail) ==
    LET sends == ErrorMailDue(kind, email_sent)
        failed == SinkFailed(fail, FALSE, FALSE, sends)
    IN  /\ CanPoll(d)
        /\ fails < MaxFails
        /\ polls' = polls + 1
        /\ fails' = fails + 1
        /\ late' = IF d # 0 THEN late + 1 ELSE late
        /\ sleep_interval' = SleepFor(status)
        /\ now' = now + d + SleepFor(status)
        /\ email_sent' = (email_sent \/ sends)
        /\ mails' = IF sends THEN {"error"} ELSE {}
        /\ streak_mails' = IF sends THEN streak_mails + 1 ELSE streak_mails
        /\ sink_failed' = failed
        /\ pc' = AfterSink(failed)
        /\ csv_written' = FALSE
        /\ alive_fired' = FALSE
        /\ wrote' = FALSE
        /\ outcome' = "fetch_error"
        /\ error_kind' = kind
        /\ branch' = "" /\ status_was_for' = 0 /\ game_was_for' = 0
        /\ printed' = {} /\ online_was_for' = 0 /\ played_total' = -1
        /\ BootLocalsDead
        /\ UNCHANGED <<status, game_name, status_old, game_name_old,
                       status_ts, status_ts_old, status_online_start_ts,
                       status_online_start_ts_old, game_ts_old, game_total_ts,
                       games_number, game_total_after_offline_counted,
                       alive_counter, file, start_before_offline,
                       interruptions, xuid, config, aside, offline_streak>>

\* the fetch succeeds but the payload has no state: the tuple assignment has
\* already replaced status and game_name when ValueError is raised; its text,
\* 'Xbox user status is empty', is not an auth error's
PollEmpty(g, d) ==
    /\ CanPoll(d)
    /\ fails < MaxFails
    /\ ~ErrorMailDue("other", email_sent)
    /\ polls' = polls + 1
    /\ fails' = fails + 1
    /\ late' = IF d # 0 THEN late + 1 ELSE late
    /\ status' = ""
    /\ game_name' = g
    /\ sleep_interval' = SleepFor("")
    /\ now' = now + d + SleepFor("")
    /\ mails' = {}
    /\ sink_failed' = "none"
    /\ csv_written' = FALSE
    /\ alive_fired' = FALSE
    /\ wrote' = FALSE
    /\ outcome' = "empty_status"
    /\ error_kind' = "other"
    /\ branch' = "" /\ status_was_for' = 0 /\ game_was_for' = 0
    /\ printed' = {} /\ online_was_for' = 0 /\ played_total' = -1
    /\ BootLocalsDead
    /\ UNCHANGED <<pc, status_old, game_name_old,
                   status_ts, status_ts_old, status_online_start_ts,
                   status_online_start_ts_old, game_ts_old, game_total_ts,
                   games_number, game_total_after_offline_counted,
                   alive_counter, file, start_before_offline,
                   interruptions, xuid, config, aside, email_sent, offline_streak,
                   streak_mails>>

\* a successful poll: snapshot (st, g) obtained d seconds after the fetch
\* began, with the sink fail failing if the iteration uses it
PollOK(st, g, d, fail) ==
    LET t == now + d
        changed == StatusChanged(status_old, st)
        gotOn == changed /\ GotOnline(status_old, st)
        gotOff == changed /\ GotOffline(status_old, st)
        gap == t - status_ts_old
        fresh == gotOn /\ FreshSession(gap, status_online_start_ts_old)
        resume == gotOn /\ ~fresh
                        /\ ResumeSession(gap, status_online_start_ts_old)
        \* "Player got online"
        counted1 == IF gotOn THEN FALSE ELSE game_total_after_offline_counted
        start1 == IF fresh THEN t
                  ELSE IF resume THEN status_online_start_ts_old
                  ELSE status_online_start_ts
        total1 == IF fresh THEN 0 ELSE game_total_ts
        num1 == IF fresh THEN 0 ELSE games_number
        \* "Player got offline"
        fold == gotOff /\ OfflineFold(num1, game_name_old, g)
        total2 == IF fold THEN total1 + (t - game_ts_old) ELSE total1
        counted2 == IF fold THEN TRUE ELSE counted1
        \* "Player started/stopped/changed the game"
        gchanged == GameChanged(game_name_old, g)
        swapped == gchanged /\ game_name_old # "" /\ g # ""
        started == gchanged /\ game_name_old = "" /\ g # ""
        stopped == gchanged /\ game_name_old # "" /\ g = ""
        total3 == IF swapped \/ (stopped /\ StoppedFold(counted2))
                  THEN total2 + (t - game_ts_old) ELSE total2
        num3 == IF swapped \/ started THEN num1 + 1 ELSE num1
        alive1 == (IF changed \/ gchanged THEN 0 ELSE alive_counter) + 1
        \* the sinks
        sent == (IF StatusMailDue(changed, gotOn \/ gotOff)
                 THEN {"status"} ELSE {})
                \cup (IF GameMailDue(gchanged) THEN {"game"} ELSE {})
        csv == (changed \/ gchanged) /\ csv_enabled
        failed == SinkFailed(fail, changed, csv, sent # {})
    IN  /\ CanPoll(d)
        /\ polls' = polls + 1
        /\ late' = IF d # 0 THEN late + 1 ELSE late
        /\ status' = st /\ game_name' = g
        /\ status_ts' = t
        /\ email_sent' = FALSE
        /\ streak_mails' = 0
        /\ wrote' = changed
        /\ file' = IF changed THEN FileAfterWrite(file, <<t, st>>, fail)
                   ELSE file
        /\ status_online_start_ts_old' =
              IF gotOff THEN start1 ELSE status_online_start_ts_old
        /\ start_before_offline' =
              IF gotOff THEN status_online_start_ts ELSE start_before_offline
        /\ status_online_start_ts' = IF gotOff THEN 0 ELSE start1
        /\ interruptions' = IF resume THEN interruptions + 1
                             ELSE IF fresh THEN 0 ELSE interruptions
        /\ game_total_after_offline_counted' = counted2
        /\ status_ts_old' = IF changed THEN t ELSE status_ts_old
        /\ game_total_ts' = total3
        /\ games_number' = num3
        /\ game_ts_old' = IF gchanged THEN t ELSE game_ts_old
        /\ mails' = sent
        /\ csv_written' = csv
        /\ sink_failed' = failed
        /\ status_old' = st /\ game_name_old' = g
        /\ alive_fired' = AliveDue(alive1, st)
        /\ alive_counter' = IF AliveDue(alive1, st) THEN 0 ELSE alive1
        /\ offline_streak' =
              IF st # "offline" \/ AliveDue(alive1, st) THEN 0
              ELSE IF changed \/ gchanged THEN 1
              ELSE offline_streak + 1
        /\ sleep_interval' = SleepFor(st)
        /\ now' = t + SleepFor(st)
        /\ pc' = AfterSink(failed)
        /\ outcome' = "poll_ok"
        /\ error_kind' = ""
        /\ branch' = IF fresh THEN "fresh"
                      ELSE IF resume THEN "resumed"
                      ELSE IF gotOff THEN "offline" ELSE ""
        /\ status_was_for' = IF changed THEN gap ELSE 0
        /\ game_was_for' = IF swapped \/ stopped THEN t - game_ts_old ELSE 0
        /\ printed' = (IF changed THEN {"status"} ELSE {})
                          \cup (IF gchanged THEN {"game"} ELSE {})
        /\ online_was_for' = IF gotOff /\ status_online_start_ts > 0
                             THEN t - status_online_start_ts ELSE 0
        /\ played_total' = IF gotOff /\ num1 > 0 THEN total2 ELSE -1
        /\ BootLocalsDead
        /\ UNCHANGED <<fails, xuid, config, aside>>

Next ==
    \/ \E x \in XuidValues, st \in Statuses \cup {""}, g \in Games,
          lo \in LastOnlineTs : Bootstrap(x, st, g, lo)
    \/ \E profile \in BOOLEAN, x \in XuidValues, presence \in BOOLEAN,
          st \in Statuses \cup {""} : InitFail(profile, x, presence, st)
    \/ polls < MaxPolls /\ \E kind \in ErrKinds, d \in FetchDelays :
                               PollFail(kind, d, "none")
    \/ polls < MaxPolls /\ \E g \in Games, d \in FetchDelays : PollEmpty(g, d)
    \/ polls < MaxPolls /\ \E st \in Statuses, g \in Games, d \in FetchDelays :
                               PollOK(st, g, d, "none")

Spec == Init /\ [][Next]_vars

\* Longer runs over the status sequence alone: no activity, no empty payload
NextSessions ==
    \/ \E x \in XuidValues, st \in Statuses, lo \in LastOnlineTs :
          Bootstrap(x, st, "", lo)
    \/ polls < MaxSessionPolls /\ \E d \in FetchDelays :
                                      PollFail("other", d, "none")
    \/ polls < MaxSessionPolls /\ \E st \in Statuses, d \in FetchDelays :
                                      PollOK(st, "", d, "none")

SpecSessions == Init /\ [][NextSessions]_vars

\* Runs over the status sequence with every kind of failed poll, error emails
\* on or off
NextErrors ==
    \/ \E x \in XuidValues, st \in Statuses, lo \in LastOnlineTs :
          Bootstrap(x, st, "", lo)
    \/ polls < MaxSessionPolls /\ \E kind \in ErrKinds, d \in FetchDelays :
                                      PollFail(kind, d, "none")
    \/ polls < MaxSessionPolls /\ \E d \in FetchDelays : PollEmpty("", d)
    \/ polls < MaxSessionPolls /\ \E st \in Statuses, d \in FetchDelays :
                                      PollOK(st, "", d, "none")

SpecErrors == InitErrors /\ [][NextErrors]_vars

\* Runs with every email and the CSV file switched on, in which any one sink
\* may fail in any iteration
NextSinks ==
    \/ \E x \in XuidValues, st \in Statuses, g \in Games, lo \in LastOnlineTs :
          Bootstrap(x, st, g, lo)
    \/ polls < MaxSinkPolls /\ \E d \in FetchDelays, fail \in SinkFailures :
                                   PollFail("auth", d, fail)
    \/ polls < MaxSinkPolls /\ \E st \in Statuses, g \in Games,
                                   d \in FetchDelays, fail \in SinkFailures :
                                   PollOK(st, g, d, fail)

SpecSinks == InitSinks /\ [][NextSinks]_vars

\* Longer runs with a short alive interval: the user online or offline, in a
\* game or not, fetches that fail
NextHeartbeat ==
    \/ \E x \in XuidValues, st \in AliveStatuses, g \in AliveGames,
          lo \in LastOnlineTs : Bootstrap(x, st, g, lo)
    \/ polls < MaxAlivePolls /\ PollFail("other", 0, "none")
    \/ polls < MaxAlivePolls /\ \E st \in AliveStatuses, g \in AliveGames :
                                    PollOK(st, g, 0, "none")

SpecHeartbeat == InitHeartbeat /\ [][NextHeartbeat]_vars

\* --------------------------------------------------------- signal handlers
\* what no handler touches
signal_rest == <<pc, now, polls, late, fails, status, game_name, session,
                 status_ts, alive_counter, sleep_interval, file, wrote,
                 lastonline_ts, last_status_ts, last_status,
                 start_before_offline, interruptions, branch, status_was_for,
                 xuid, email_sent, error_notification, tool_alive_interval,
                 csv_enabled, game_was_for, error_kind, mails, csv_written,
                 sink_failed, alive_fired, offline_streak, streak_mails,
                 printed, online_was_for, played_total, devices, platform,
                 file_text>>

\* signal sig reaches the process while it runs
CanSignal(sig) ==
    /\ pc \in {"init", "loop"}
    /\ signals < MaxSignals
    /\ signals' = signals + 1
    /\ outcome' = sig

\* SIGUSR1
toggle_active_inactive_notifications_signal_handler ==
    /\ CanSignal("SIGUSR1")
    /\ active_inactive_notification' = ~active_inactive_notification
    /\ UNCHANGED <<status_notification, game_change_notification,
                   active_check_interval, signal_rest>>

\* SIGUSR2
toggle_game_change_notifications_signal_handler ==
    /\ CanSignal("SIGUSR2")
    /\ game_change_notification' = ~game_change_notification
    /\ UNCHANGED <<status_notification, active_inactive_notification,
                   active_check_interval, signal_rest>>

\* SIGCONT
toggle_all_status_changes_notifications_signal_handler ==
    /\ CanSignal("SIGCONT")
    /\ status_notification' = ~status_notification
    /\ UNCHANGED <<active_inactive_notification, game_change_notification,
                   active_check_interval, signal_rest>>

\* SIGTRAP
increase_active_check_signal_handler ==
    /\ CanSignal("SIGTRAP")
    /\ active_check_interval' =
          active_check_interval + XBOX_ACTIVE_CHECK_SIGNAL_VALUE
    /\ UNCHANGED <<status_notification, active_inactive_notification,
                   game_change_notification, signal_rest>>

DecreaseAllowed_ToZero(interval) ==
    interval - XBOX_ACTIVE_CHECK_SIGNAL_VALUE >= 0

DecreaseAllowed_Always(interval) == TRUE

\* if XBOX_ACTIVE_CHECK_INTERVAL - XBOX_ACTIVE_CHECK_SIGNAL_VALUE > 0
DecreaseAllowed(interval) == interval - XBOX_ACTIVE_CHECK_SIGNAL_VALUE > 0

\* SIGABRT
decrease_active_check_signal_handler ==
    /\ CanSignal("SIGABRT")
    /\ active_check_interval' =
          IF DecreaseAllowed(active_check_interval)
          THEN active_check_interval - XBOX_ACTIVE_CHECK_SIGNAL_VALUE
          ELSE active_check_interval
    /\ UNCHANGED <<status_notification, active_inactive_notification,
                   game_change_notification, signal_rest>>

\* Runs in which signals arrive between the steps of the monitor
NextSignals ==
    \/ \E x \in XuidValues, st \in Statuses, g \in Games :
          Bootstrap(x, st, g, 0)
    \/ polls < MaxSignalPolls /\ PollFail("other", 0, "none")
    \/ polls < MaxSignalPolls /\ \E st \in Statuses, g \in Games :
                                     PollOK(st, g, 0, "none")
    \/ toggle_active_inactive_notifications_signal_handler
    \/ toggle_game_change_notifications_signal_handler
    \/ toggle_all_status_changes_notifications_signal_handler
    \/ increase_active_check_signal_handler
    \/ decrease_active_check_signal_handler

SpecSignals == InitSignals /\ [][NextSignals]_vars

\* Successful polls under every setting of the three notification options
NextToggles ==
    \/ \E x \in XuidValues, st \in Statuses, g \in Games, lo \in LastOnlineTs :
          Bootstrap(x, st, g, lo)
    \/ polls < MaxTogglePolls /\ \E st \in Statuses, g \in Games,
                                     d \in FetchDelays :
                                     PollOK(st, g, d, "none")

SpecToggles == InitToggles /\ [][NextToggles]_vars

\* ------------------------------------------------------------------- claims
\* steps of the loop, recognised from the state before and after
PollStep == polls' = polls + 1
PollOKStep == PollStep /\ outcome' = "poll_ok"
GotOnlineStep == PollOKStep /\ status_old = "offline" /\ status_old' # "offline"
GotOfflineStep == PollOKStep /\ status_old # "offline" /\ status_old' = "offline"

\* C1: after the bootstrap and after every poll the online-session start
\* timestamp is nonzero exactly when the retained status (status_old) is not
\* "offline"; after the bootstrap and after a successful poll that status is the
\* one just observed
C1_OnlineStartIffNotOffline ==
    /\ pc = "loop" => (status_online_start_ts # 0 <=> status_old # "offline")
    /\ outcome \in {"boot", "poll_ok"}
          => (status_online_start_ts # 0 <=> status # "offline")

\* the user came back online after an offline period that followed a session
C1_Witness ==
    /\ outcome = "poll_ok"
    /\ branch \in {"fresh", "resumed"}
    /\ start_before_offline # 0
    /\ status_online_start_ts # 0

\* C2: on an offline -> non-offline poll the status step keeps game_total_ts and
\* games_number when the gap is at most OFFLINE_INTERRUPT and a session preceded
\* the offline period, and zeroes both otherwise; what the poll adds on top is
\* only the activity step's share (the time of a game that ended or was
\* replaced, one more game when one begins)
C2_ResumeKeepsCountersFreshResets ==
    [][GotOnlineStep =>
        LET gap == status_ts' - status_ts_old
            kept == gap <= OFFLINE_INTERRUPT /\ start_before_offline # 0
            over == game_name_old # "" /\ game_name_old' # game_name_old
            begun == game_name_old' # "" /\ game_name_old' # game_name_old
        IN  /\ game_total_ts' = (IF kept THEN game_total_ts ELSE 0)
                                + (IF over THEN status_ts' - game_ts_old ELSE 0)
            /\ games_number' = (IF kept THEN games_number ELSE 0)
                               + (IF begun THEN 1 ELSE 0)]_vars

\* a session with one game and time played is resumed after a gap of exactly
\* OFFLINE_INTERRUPT seconds
C2_Witness ==
    /\ branch = "resumed"
    /\ status_was_for = OFFLINE_INTERRUPT
    /\ game_total_ts > 0
    /\ games_number = 1
    /\ game_name_old = ""

\* C3: coming back online within OFFLINE_INTERRUPT seconds (the threshold
\* included) after a session restores the session start that was in force just
\* before the user went offline, however many interruptions came before
C3_ResumeRestoresSessionStart ==
    [][(/\ GotOnlineStep
        /\ status_ts' - status_ts_old <= OFFLINE_INTERRUPT
        /\ start_before_offline # 0)
       => /\ status_online_start_ts' = start_before_offline
          /\ (interruptions > 0 => status_online_start_ts' = status_online_start_ts_old)]_vars

\* the second short interruption in a row is resumed, this one after exactly
\* OFFLINE_INTERRUPT seconds, and the session still starts where it did
C3_Witness ==
    /\ branch = "resumed"
    /\ interruptions = 2
    /\ status_was_for = OFFLINE_INTERRUPT
    /\ status_online_start_ts = start_before_offline
    /\ status_online_start_ts = BootTime

\* C4: a poll in which the user goes offline and the game stops adds the game's
\* time to game_total_ts exactly once
C4_NoDoubleCount ==
    [][(GotOfflineStep /\ game_name_old # "" /\ game_name_old' = "")
       => game_total_ts' = game_total_ts + (status_ts' - game_ts_old)]_vars

\* the offline block has folded the game's time and the stopped-playing branch
\* ran in the same poll
C4_Witness ==
    /\ outcome = "poll_ok"
    /\ branch = "offline"
    /\ game_total_after_offline_counted
    /\ game_name_old = ""
    /\ game_total_ts > 0

\* C5: a poll whose presence fetch raises changes no field of the session
\* state, nor the loop's status and game_name, and does not write the file
C5_FetchErrorKeepsState ==
    [][(PollStep /\ outcome' = "fetch_error")
       => /\ UNCHANGED <<session, status, game_name, file>>
          /\ ~wrote']_vars

\* a fetch fails while the user is in a game with time already accounted
C5_Witness ==
    /\ outcome = "fetch_error"
    /\ status = "online"
    /\ game_name_old # ""
    /\ game_total_ts > 0

\* C6: a poll whose payload has an empty status changes no field of the session
\* state, nor the loop's status and game_name
C6_EmptyStatusKeepsState ==
    [][(PollStep /\ outcome' = "empty_status")
       => UNCHANGED <<session, status, game_name>>]_vars

\* C7: a successful poll writes [now, status] to the file when the status
\* differs from status_old, and leaves the file alone when it does not
C7_WriteIffStatusChanged ==
    [][PollOKStep =>
        /\ status_ts' + sleep_interval' = now'
        /\ IF status' # status_old
           THEN wrote' /\ file' = <<status_ts', status'>>
           ELSE ~wrote' /\ file' = file]_vars

\* a change between two non-offline statuses has been written
C7_Witness ==
    /\ outcome = "poll_ok"
    /\ wrote
    /\ branch = ""
    /\ file = <<status_ts, status>>
    /\ status_ts > BootTime

\* C8: with no loadable record the bootstrap writes [status_ts_old, status]
\* before any poll, and status_ts_old is the current time unless the user is
\* offline
C8_FirstRunSeedsRecord ==
    (outcome = "boot" /\ last_status_ts = 0)
    => /\ polls = 0
       /\ wrote
       /\ file = <<status_ts_old, status>>
       /\ status # "offline" => status_ts_old = now

\* first run, user online: the record is [now, "online"]
C8_Witness ==
    /\ outcome = "boot"
    /\ last_status_ts = 0
    /\ status = "online"
    /\ status_ts_old = BootTime
    /\ file = <<BootTime, "online">>

\* C9: when the record's status is the live, non-offline status, the bootstrap
\* takes the record's timestamp as status_ts_old and as the session start and
\* does not rewrite the file
C9_MatchingRecordAdopted ==
    (outcome = "boot" /\ last_status_ts > 0 /\ last_status = status
        /\ status # "offline")
    => /\ status_ts_old = last_status_ts
       /\ status_online_start_ts = last_status_ts
       /\ ~wrote
       /\ file = <<last_status_ts, last_status>>

\* restart while the user is still away
C9_Witness ==
    /\ outcome = "boot"
    /\ last_status = "away"
    /\ status = "away"
    /\ status_ts_old = last_status_ts
    /\ last_status_ts < BootTime

\* C10: when the record's status differs from the live status and there is no
\* last-seen time, the bootstrap sets status_ts_old to the current time
C10_MismatchUsesNow ==
    (outcome = "boot" /\ last_status_ts > 0 /\ last_status # status
        /\ lastonline_ts = 0)
    => status_ts_old = now

\* C11: when the bootstrap finds the user offline with a nonzero last-seen
\* time, status_ts_old is the larger of the last-seen time and the record's
\* timestamp if a record with a positive timestamp was loaded, and the last-seen
\* time if none was
C11_OfflineBootUsesLastSeen ==
    (outcome = "boot" /\ status = "offline" /\ lastonline_ts # 0)
    => IF last_status_ts > 0
       THEN /\ status_ts_old >= lastonline_ts
            /\ status_ts_old >= last_status_ts
            /\ status_ts_old \in {lastonline_ts, last_status_ts}
       ELSE status_ts_old = lastonline_ts

\* the record is younger than the last-seen time the service reports
C11_Witness ==
    /\ outcome = "boot"
    /\ status = "offline"
    /\ lastonline_ts # 0
    /\ last_status_ts > lastonline_ts
    /\ status_ts_old = last_status_ts

\* a poll that starts a fresh online session: offline -> non-offline with a gap
\* above OFFLINE_INTERRUPT or no session before the offline period
FreshSessionStep ==
    /\ GotOnlineStep
    /\ \/ status_ts' - status_ts_old > OFFLINE_INTERRUPT
       \/ status_online_start_ts_old = 0

\* C12: game_total_ts never decreases over a poll unless the poll starts a
\* fresh online session, and after every such poll it is 0
C12_TotalZeroAfterFreshPoll ==
    [][PollStep => IF FreshSessionStep
                   THEN game_total_ts' = 0
                   ELSE game_total_ts' >= game_total_ts]_vars

\* C13: in a poll that finds a game replaced by another one, game_total_ts
\* grows by exactly the replaced game's time (status_ts - game_ts_old),
\* games_number grows by exactly 1 and the change is reported with that time;
\* in a poll that finds a game where there was none, games_number grows by 1
\* and game_total_ts is unchanged
C13_SwapAddsElapsedStartAddsOne ==
    [][PollOKStep =>
          /\ (game_name_old # "" /\ game_name_old' # ""
                 /\ game_name_old' # game_name_old)
             => /\ game_total_ts' = game_total_ts + (status_ts' - game_ts_old)
                /\ games_number' = games_number + 1
                /\ game_was_for' = status_ts' - game_ts_old
          /\ (game_name_old = "" /\ game_name_old' # "")
             => /\ games_number' = games_number + 1
                /\ game_total_ts' = game_total_ts]_vars

\* C13, amended: the same, in a poll that does not start a fresh online
\* session; a poll that starts a fresh session and finds a game where there was
\* none leaves games_number at 1 and game_total_ts at 0, the counters having
\* been zeroed first
C13_SwapAndStartAfterStatusStep ==
    [][PollOKStep =>
          /\ (game_name_old # "" /\ game_name_old' # ""
                 /\ game_name_old' # game_name_old /\ ~FreshSessionStep)
             => /\ game_total_ts' = game_total_ts + (status_ts' - game_ts_old)
                /\ games_number' = games_number + 1
                /\ game_was_for' = status_ts' - game_ts_old
          /\ (game_name_old = "" /\ game_name_old' # "")
             => IF FreshSessionStep
                THEN games_number' = 1 /\ game_total_ts' = 0
                ELSE /\ games_number' = games_number + 1
                     /\ game_total_ts' = game_total_ts]_vars

\* the second game of the session replaced the first, whose time is the total
C13_Witness ==
    /\ outcome = "poll_ok"
    /\ branch = ""
    /\ game_name_old = "GameB"
    /\ games_number = 2
    /\ game_was_for > 0
    /\ game_total_ts = game_was_for

\* C14: in every poll that finds the recorded game gone, its time
\* (status_ts - game_ts_old) is added to game_total_ts exactly once, by the
\* offline handling or else by the activity step, on top of what the status
\* step left (0 when the poll starts a fresh session); so a game that ends in a
\* poll with no non-offline -> offline transition is always added
C14_EndedGameAlwaysFolded ==
    [][(PollOKStep /\ game_name_old # "" /\ game_name_old' = "")
          => game_total_ts' = (IF FreshSessionStep THEN 0 ELSE game_total_ts)
                                 + (status_ts' - game_ts_old)]_vars

\* C15: between two successful polls at most one error email is sent; an error
\* email is sent only by a poll whose fetch raised an error that mentions
\* "auth", "token" or "validation", and only with error emails on; email_sent is
\* cleared by a successful poll (non-empty status) and by nothing else, and the
\* first such failure after a successful poll is mailed again
C15_OneErrorMailPerStreak ==
    [][PollStep =>
          /\ streak_mails' <= 1
          /\ "error" \in mails'
                => /\ outcome' = "fetch_error"
                   /\ error_kind' = "auth"
                   /\ error_notification
          /\ (email_sent /\ ~email_sent')
                => (outcome' = "poll_ok" /\ status' # "")
          /\ outcome' = "poll_ok" => ~email_sent'
          /\ (outcome = "poll_ok" /\ error_kind' = "auth" /\ error_notification)
                => "error" \in mails']_vars

\* a second auth failure in a row, after the first was mailed: no email
C15_Witness ==
    /\ outcome = "fetch_error"
    /\ error_kind = "auth"
    /\ error_notification
    /\ fails = 2
    /\ streak_mails = 1
    /\ mails = {}

\* C16: after a failed poll of either kind the loop sleeps the interval that
\* belongs to the status of the most recent successful poll (status_old): the
\* active interval if it is not "offline", the offline interval otherwise
C16_FailureSleepFollowsLastKnownStatus ==
    outcome \in {"fetch_error", "empty_status"}
    => sleep_interval = (IF status_old # "offline"
                         THEN active_check_interval
                         ELSE XBOX_CHECK_INTERVAL)

\* C17: after a successful poll the loop sleeps XBOX_ACTIVE_CHECK_INTERVAL (its
\* value at that moment) if
\* the status just observed is not "offline" and XBOX_CHECK_INTERVAL if it is,
\* and the next poll begins that much later
C17_SuccessSleepFollowsObservedStatus ==
    outcome = "poll_ok"
    => /\ status # "offline" => sleep_interval = active_check_interval
       /\ status = "offline" => sleep_interval = XBOX_CHECK_INTERVAL
       /\ now = status_ts + sleep_interval

\* the user went from online to offline: the loop slows down to the offline
\* cadence
C17_Witness ==
    /\ outcome = "poll_ok"
    /\ branch = "offline"
    /\ status = "offline"
    /\ sleep_interval = XBOX_CHECK_INTERVAL
    /\ now = status_ts + XBOX_CHECK_INTERVAL

\* C18: a poll in which a sink fails (the last-status file cannot be opened or
\* written, the CSV row cannot be appended, an email cannot be sent) leaves the
\* loop running and updates the state as a poll does: after a successful fetch
\* the retained status and game are the observed ones, the timestamps of a
\* change are the poll's, the session start is set exactly while not offline,
\* error emails are re-armed and the sleep is the observed status's; after a
\* failed fetch the session state is untouched
C18_SinkFailureKeepsLoopAndState ==
    /\ [](sink_failed # "none" /\ polls < MaxSinkPolls
             => ENABLED PollOK("online", "", 0, "none"))
    /\ [][(PollStep /\ sink_failed' # "none") =>
             /\ pc' = "loop"
             /\ outcome' = "poll_ok" =>
                   /\ status_old' = status' /\ game_name_old' = game_name'
                   /\ status_old' # status_old => status_ts_old' = status_ts'
                   /\ status_old' = status_old => status_ts_old' = status_ts_old
                   /\ game_name_old' # game_name_old => game_ts_old' = status_ts'
                   /\ game_name_old' = game_name_old => game_ts_old' = game_ts_old
                   /\ status_online_start_ts' # 0 <=> status' # "offline"
                   /\ ~email_sent'
                   /\ sleep_interval' = SleepFor(status')
                   /\ now' = status_ts' + sleep_interval'
             /\ outcome' = "fetch_error" =>
                   /\ session' = session
                   /\ email_sent']_vars

\* the user went offline and the dump into the last-status file failed: the
\* file is unusable, the state says offline since this poll
C18_Witness ==
    /\ outcome = "poll_ok"
    /\ sink_failed = "record_dump"
    /\ file = BadFile
    /\ pc = "loop"
    /\ branch = "offline"
    /\ status_old = "offline"
    /\ status_ts_old = status_ts
    /\ status_online_start_ts = 0

\* C19: the start-up either resolves a nonzero XUID and fetches a non-empty
\* initial status, and only then enters the loop, or it ends the process with
\* exit code 1, with the last-status file as it was, and nothing runs after that
C19_LoopOnlyAfterInit ==
    [][/\ pc # "exit1"
       /\ pc = "init"
             => IF xuid' # 0 /\ status' # ""
                THEN pc' = "loop" /\ status_old' = status'
                ELSE /\ pc' = "exit1"
                     /\ outcome' = "init_failed"
                     /\ file' = file
                     /\ ~wrote'
                     /\ polls' = 0
       /\ pc' = "loop" => (xuid' # 0 /\ status_old' # "")]_vars

\* the XUID was resolved, the initial presence fetch failed: exit, the record
\* of an earlier run untouched
C19_Witness ==
    /\ pc = "exit1"
    /\ outcome = "init_failed"
    /\ xuid # 0
    /\ status = ""
    /\ IsRecord(file)
    /\ ~wrote
    /\ polls = 0

\* C20: the alive check is printed only by a successful poll that finds the
\* status "offline", when that poll completes a run of at least
\* TOOL_ALIVE_INTERVAL / XBOX_CHECK_INTERVAL successful polls, all with status
\* "offline", since the last status or game change or the last alive check;
\* the poll that prints it changes no session field
C20_AliveOnlyAfterQuietOfflinePolls ==
    [][PollStep =>
          (alive_fired'
              => /\ outcome' = "poll_ok"
                 /\ status' = "offline"
                 /\ status_old = "offline"
                 /\ (offline_streak + 1) * XBOX_CHECK_INTERVAL
                        >= tool_alive_interval
                 /\ session' = session)]_vars

\* the second poll in a row that finds the user offline, as the bootstrap did
C20_Witness ==
    /\ alive_fired
    /\ outcome = "poll_ok"
    /\ status = "offline"
    /\ alive_counter = 0
    /\ polls >= 2
    /\ tool_alive_interval = 2 * XBOX_CHECK_INTERVAL

\* C21: saving the values just loaded from the last-status file writes a text
\* that loads to the same [timestamp, status]; saving again changes nothing;
\* and if the text loaded was one this program had written, the text saved is
\* that text, character for character
C21_SaveAfterLoadKeepsRecord ==
    [][(pc = "loaded" /\ pc' = "saved")
          => /\ json_load(file_text') = <<last_status_ts, last_status>>
             /\ json_load(file_text') = json_load(file_text)
             /\ json_dump(json_load(file_text')) = file_text'
             /\ (\E rec \in RecordValues : file_text = json_dump(rec))
                   => file_text' = file_text]_vars

\* a record whose status holds a quote and a backslash, written without
\* indentation by another writer, loaded and saved again
C21_Witness ==
    /\ pc = "saved"
    /\ last_status_ts = 12
    /\ last_status = <<"\"", "\\">>
    /\ file_text = json_dump(<<12, <<"\"", "\\">>>>)
    /\ file_text # CompactText(<<12, <<"\"", "\\">>>>)

\* C23 (as stated): after a failed poll of either kind the loop sleeps
\* XBOX_CHECK_INTERVAL, whatever the status was before the failure
C23_FailureSleepIsOfflineInterval ==
    outcome \in {"fetch_error", "empty_status"}
    => sleep_interval = XBOX_CHECK_INTERVAL

\* C23: after a failed poll of either kind the loop sleeps the active interval
\* if its status variable (what the latest payload carried, "" after a payload
\* without state) is neither empty nor "offline", and XBOX_CHECK_INTERVAL
\* otherwise; the retry begins that much after the failure
C23_FailureSleepFollowsStatusVariable ==
    [][(PollStep /\ outcome' \in {"fetch_error", "empty_status"})
          => /\ status' \notin {"", "offline"}
                   => sleep_interval' = active_check_interval
             /\ status' \in {"", "offline"}
                   => sleep_interval' = XBOX_CHECK_INTERVAL
             /\ now' - now - sleep_interval' \in FetchDelays]_vars

\* a fetch that raises while the user is online is retried after the active
\* interval
C23_Witness ==
    /\ outcome = "fetch_error"
    /\ status = "online"
    /\ sleep_interval = active_check_interval
    /\ sleep_interval # XBOX_CHECK_INTERVAL

\* every title of the payload, device after device
RECURSIVE AllTitles(_)
AllTitles(devs) ==
    IF devs = <<>> THEN <<>> ELSE Head(devs) \o AllTitles(Tail(devs))

\* C22: the activity name the normalizer returns is the name of the first
\* title, over all devices of the payload in order, that is not "Online",
\* "Home" or "Xbox App" and is not placed "Background"; it is empty only when
\* no title of any device qualifies
C22_FirstQualifyingOverAllDevices ==
    pc = "normalized"
    => /\ game_name = FirstQualifying(AllTitles(devices))
       /\ game_name = ""
             => \A i \in 1 .. Len(devices) :
                    \A j \in 1 .. Len(devices[i]) : ~Qualifies(devices[i][j])

\* C24: the 0 that a missing or unparsable last-seen timestamp yields is never
\* taken as a time: once the bootstrap is done status_ts_old is strictly
\* positive, after every poll as well (and so is the time of a successful
\* poll's observation), and a record in the last-status file never holds
\* timestamp 0
C24_ZeroSentinelNeverATime ==
    /\ pc = "loop" => status_ts_old > 0
    /\ outcome = "poll_ok" => status_ts > 0
    /\ IsRecord(file) => file[1] > 0

\* the bootstrap found the user offline with no usable last-seen timestamp and
\* no earlier record: it took the current time and wrote it
C24_Witness ==
    /\ outcome = "boot"
    /\ status = "offline"
    /\ lastonline_ts = 0
    /\ last_status_ts = 0
    /\ wrote
    /\ IsRecord(file) /\ file[1] = status_ts_old
    /\ status_ts_old = BootTime

\* C25: in a successful poll the status block runs exactly when the observed
\* status differs from the retained one and the activity block runs exactly
\* when the observed activity differs from the retained one, whatever the other
\* block does; the status block runs first, and what the activity block then
\* adds to game_total_ts (on top of the total the status block left: zeroed by
\* a fresh session, enlarged by the got-offline fold) is 0 for no change or a
\* start, the elapsed time for a swap, and for a stop the elapsed time unless
\* game_total_after_offline_counted, as the status block left it, is set
C25_StatusStepThenActivityStep ==
    [][PollOKStep =>
          LET t == status_ts'
              elapsed == t - game_ts_old
              statusRan == "status" \in printed'
              gameRan == "game" \in printed'
              folded == /\ GotOfflineStep
                        /\ games_number > 0
                        /\ game_name_old # "" /\ game_name' = ""
              afterStatus == IF branch' = "fresh" THEN 0
                             ELSE IF folded THEN game_total_ts + elapsed
                             ELSE game_total_ts
              added == game_total_ts' - afterStatus
          IN  /\ statusRan <=> status' # status_old
              /\ gameRan <=> game_name' # game_name_old
              /\ status_ts_old' = (IF statusRan THEN t ELSE status_ts_old)
              /\ game_ts_old' = (IF gameRan THEN t ELSE game_ts_old)
              /\ folded => game_total_after_offline_counted'
              /\ added = (IF ~gameRan \/ game_name_old = "" THEN 0
                          ELSE IF game_name' # "" THEN elapsed
                          ELSE IF game_total_after_offline_counted' THEN 0
                          ELSE elapsed)]_vars

\* the user went offline and the running game ended in the same poll: both
\* blocks ran, the status block folded the game's time and the activity block
\* added nothing more
C25_Witness ==
    /\ outcome = "poll_ok"
    /\ printed = {"status", "game"}
    /\ branch = "offline"
    /\ game_total_after_offline_counted
    /\ game_was_for > 0
    /\ game_total_ts = game_was_for

\* C26: a poll that sees the status change prints the status summary whatever
\* the three notification options are, and sends the status email exactly when
\* status_notification is on, or active_inactive_notification is on and one of
\* the two statuses is "offline"; a poll that sees the activity change sends
\* the activity email exactly when game_change_notification is on; a poll
\* leaves the options as they are, and the retained status, activity and
\* timestamps and the last-status file are the ones the observation gives,
\* the options appearing nowhere in them
C26_TogglesDecideEmailsOnly ==
    [][PollOKStep =>
          LET changed == status' # status_old
              gchanged == game_name' # game_name_old
              crosses == (status_old = "offline") # (status' = "offline")
          IN  /\ changed <=> "status" \in printed'
              /\ gchanged <=> "game" \in printed'
              /\ "status" \in mails'
                    <=> /\ changed
                        /\ \/ status_notification
                           \/ active_inactive_notification /\ crosses
              /\ "game" \in mails' <=> (gchanged /\ game_change_notification)
              /\ UNCHANGED <<status_notification, active_inactive_notification,
                             game_change_notification>>
              /\ status_old' = status' /\ game_name_old' = game_name'
              /\ status_ts_old' = (IF changed THEN status_ts' ELSE status_ts_old)
              /\ game_ts_old' = (IF gchanged THEN status_ts' ELSE game_ts_old)
              /\ status_online_start_ts' # 0 <=> status' # "offline"
              /\ file' = (IF changed THEN <<status_ts', status'>> ELSE file)]_vars

\* with only -a given, the user went offline and stopped the game in the same
\* poll: both summaries were printed, the status email was sent, the activity
\* email was not
C26_Witness ==
    /\ outcome = "poll_ok"
    /\ ~status_notification /\ active_inactive_notification
    /\ ~game_change_notification
    /\ branch = "offline"
    /\ printed = {"status", "game"}
    /\ mails = {"status"}
    /\ file = <<status_ts, "offline">>

SignalStep == signals' = signals + 1

\* C27 (as stated): every SIGTRAP raises and every SIGABRT lowers the active
\* interval by exactly XBOX_ACTIVE_CHECK_SIGNAL_VALUE, whatever the interval is
C27_EverySignalMovesInterval ==
    [][SignalStep
          => /\ outcome' = "SIGTRAP"
                   => active_check_interval'
                         = active_check_interval + XBOX_ACTIVE_CHECK_SIGNAL_VALUE
             /\ outcome' = "SIGABRT"
                   => active_check_interval'
                         = active_check_interval - XBOX_ACTIVE_CHECK_SIGNAL_VALUE]_vars

\* C27: SIGTRAP raises the active interval by exactly
\* XBOX_ACTIVE_CHECK_SIGNAL_VALUE; SIGABRT lowers it by exactly that much when
\* the interval is larger than XBOX_ACTIVE_CHECK_SIGNAL_VALUE and leaves it as
\* it is otherwise
C27_IncreaseExactDecreaseGuarded ==
    [][SignalStep
          => /\ outcome' = "SIGTRAP"
                   => active_check_interval'
                         = active_check_interval + XBOX_ACTIVE_CHECK_SIGNAL_VALUE
             /\ outcome' = "SIGABRT"
                   => active_check_interval'
                         = (IF active_check_interval
                                  > XBOX_ACTIVE_CHECK_SIGNAL_VALUE
                            THEN active_check_interval
                                    - XBOX_ACTIVE_CHECK_SIGNAL_VALUE
                            ELSE active_check_interval)]_vars

\* started with -k 45, lowered once to 15, a second decrease signal left 15
C27_Witness ==
    /\ signals = 2
    /\ outcome = "SIGABRT"
    /\ active_check_interval = 15

\* C28: a signal arriving at any point between the monitor's steps changes its
\* own option or the active interval and nothing else (the retained status and
\* activity, the timestamps and totals, the last-status file, the clock, the
\* pending sleep and what was printed or sent stay as they are); a poll
\* changes none of the options or the interval, sleeps the interval as it is
\* at that poll, and retains what it observed as it does without signals
C28_SignalsWriteOnlyTheirKnob ==
    [][/\ SignalStep =>
             /\ UNCHANGED <<session, file, pc, now, polls, status, game_name,
                            status_ts, alive_counter, sleep_interval,
                            email_sent, mails, printed, wrote, csv_written,
                            status_was_for, game_was_for, error_notification,
                            csv_enabled, tool_alive_interval>>
             /\ outcome' \in {"SIGUSR1", "SIGUSR2", "SIGCONT", "SIGTRAP",
                              "SIGABRT"}
             /\ (active_inactive_notification' # active_inactive_notification)
                   <=> outcome' = "SIGUSR1"
             /\ (game_change_notification' # game_change_notification)
                   <=> outcome' = "SIGUSR2"
             /\ (status_notification' # status_notification)
                   <=> outcome' = "SIGCONT"
             /\ active_check_interval' # active_check_interval
                   => outcome' \in {"SIGTRAP", "SIGABRT"}
       /\ PollStep =>
             /\ UNCHANGED <<status_notification, active_inactive_notification,
                            game_change_notification, active_check_interval,
                            signals>>
             /\ sleep_interval' = (IF status' \notin {"", "offline"}
                                   THEN active_check_interval
                                   ELSE XBOX_CHECK_INTERVAL)
             /\ now' = now + sleep_interval'
             /\ outcome' = "fetch_error" => session' = session /\ file' = file
             /\ outcome' = "poll_ok" =>
                   /\ status_old' = status' /\ game_name_old' = game_name'
                   /\ status_ts_old' = (IF status' # status_old THEN status_ts'
                                        ELSE status_ts_old)
                   /\ game_ts_old' = (IF game_name' # game_name_old
                                      THEN status_ts' ELSE game_ts_old)
                   /\ file' = (IF status' # status_old
                               THEN <<status_ts', status'>> ELSE file)
                   /\ printed' = (IF status' # status_old
                                  THEN {"status"} ELSE {})
                                   \cup (IF game_name' # game_name_old
                                         THEN {"game"} ELSE {})]_vars

\* SIGTRAP before a poll of an online user, SIGABRT during the sleep that
\* followed: the sleep under way keeps the raised interval, the next one will
\* use the lowered one
C28_Witness ==
    /\ outcome = "SIGABRT"
    /\ signals = 2
    /\ polls >= 1
    /\ status = "online"
    /\ sleep_interval = XBOX_ACTIVE_CHECK_INTERVAL + XBOX_ACTIVE_CHECK_SIGNAL_VALUE
    /\ active_check_interval = XBOX_ACTIVE_CHECK_INTERVAL

MapStep == pc = "init" /\ pc' = "mapped"
ContainsAny(code, names) == \E name \in names : Contains(code, name)

\* C29: with short labels, a device code containing scarlett, anaconda,
\* starkville, lockhart or edith is mapped to "XSX"; otherwise one containing
\* scorpio or edmonton to "XONEX"; otherwise one containing durango to "XONE";
\* otherwise one containing xenon to "X360"; a code containing none of the
\* names of the table (these, windows, ios, android) is returned unchanged
C29_EveryListedNameIsMapped ==
    [][(MapStep /\ outcome' = "short") =>
          LET series == {"scarlett", "anaconda", "starkville", "lockhart",
                         "edith"}
              onex == {"scorpio", "edmonton"}
              others == {"windows", "ios", "android"}
          IN  /\ ContainsAny(platform, series) => platform' = <<"XSX">>
              /\ (~ContainsAny(platform, series)
                     /\ ContainsAny(platform, onex))
                    => platform' = <<"XONEX">>
              /\ (~ContainsAny(platform, series \cup onex)
                     /\ Contains(platform, "durango"))
                    => platform' = <<"XONE">>
              /\ (~ContainsAny(platform, series \cup onex \cup {"durango"})
                     /\ Contains(platform, "xenon"))
                    => platform' = <<"X360">>
              /\ ~ContainsAny(platform, series \cup onex \cup others
                                           \cup {"durango", "xenon"})
                    => platform' = platform]_vars

\* C30: a poll that sees the status change reports, as the time spent in the
\* previous status, the poll's time minus status_ts_old, and sets status_ts_old
\* to the poll's time; a poll that sees the user go offline reports, as the
\* time online, the poll's time minus status_online_start_ts (the start kept
\* across short interruptions), and the total played it reports (it reports
\* one exactly when games_number is positive) contains the time of a game that
\* ended in this very poll and equals game_total_ts after the poll
C30_ReportedDurations ==
    [][PollOKStep =>
          /\ status' # status_old
                => /\ status_was_for' = status_ts' - status_ts_old
                   /\ status_ts_old' = status_ts'
          /\ GotOfflineStep
                => /\ status_online_start_ts > 0
                   /\ online_was_for' = status_ts' - status_online_start_ts
                   /\ played_total' # -1 <=> games_number > 0
                   /\ (played_total' # -1 /\ game_name_old # ""
                          /\ game_name' = "")
                         => /\ played_total'
                                  = game_total_ts + (status_ts' - game_ts_old)
                            /\ played_total' = game_total_ts']_vars

\* online in a game, briefly offline, back in another game, then offline with
\* the game gone: the time online runs from the bootstrap across the
\* interruption, and the total reported holds both games
C30_Witness ==
    /\ outcome = "poll_ok"
    /\ branch = "offline"
    /\ interruptions = 1
    /\ games_number = 2
    /\ game_was_for > 0
    /\ played_total = game_total_ts
    /\ played_total > game_was_for
    /\ online_was_for = status_ts - BootTime
    /\ online_was_for > status_was_for

\* C31: once the bootstrap is done, and after every poll, the last-status file
\* holds a record whose status is the retained status (status_old), so a
\* process stopped during any sleep leaves the current status on disk
C31_RecordStatusIsRetainedStatus ==
    pc = "loop" => IsRecord(file) /\ file[2] = status_old

\* an earlier run had recorded "online"; this run found the user offline at
\* the bootstrap and saw "away" in a poll: the file says "away"
C31_Witness ==
    /\ outcome = "poll_ok"
    /\ polls >= 1
    /\ wrote
    /\ status_old = "away"
    /\ file = <<status_ts, "away">>

\* C32: once the bootstrap is done, and after every poll, the last-status file
\* holds a record whose timestamp is status_ts_old, also when the bootstrap
\* took status_ts_old from the last-seen time
C32_RecordTimestampIsStatusSince ==
    pc = "loop" => IsRecord(file) /\ file[1] = status_ts_old

\* C33: a poll that sees the status change from one non-offline status to
\* another leaves status_online_start_ts, status_online_start_ts_old and
\* game_total_after_offline_counted as they are, and game_total_ts and
\* games_number too unless the activity changes in the same poll (then they
\* change as in a poll without a status change); it sets status_ts_old to the
\* poll's time, retains the new status and writes both to the file
C33_NonOfflineChangeKeepsSession ==
    [][(/\ PollOKStep
        /\ status_old # "offline" /\ status' # "offline"
        /\ status' # status_old)
       => /\ UNCHANGED <<status_online_start_ts, status_online_start_ts_old,
                         game_total_after_offline_counted>>
          /\ game_name' = game_name_old
                => UNCHANGED <<game_total_ts, games_number, game_ts_old>>
          /\ (game_name' # game_name_old /\ game_name_old # "")
                => /\ game_total_ts'
                         = game_total_ts
                              + (IF game_name' = ""
                                    /\ game_total_after_offline_counted
                                 THEN 0 ELSE status_ts' - game_ts_old)
                   /\ games_number'
                         = games_number + (IF game_name' # "" THEN 1 ELSE 0)
          /\ (game_name' # game_name_old /\ game_name_old = "")
                => /\ game_total_ts' = game_total_ts
                   /\ games_number' = games_number + 1
          /\ status_ts_old' = status_ts'
          /\ status_old' = status'
          /\ file' = <<status_ts', status'>>]_vars

\* online and in a game since the bootstrap, then seen away in the same game:
\* the session start and the counters are the bootstrap's, the status time and
\* the file are the poll's
C33_Witness ==
    /\ outcome = "poll_ok"
    /\ polls = 1
    /\ status_old = "away"
    /\ branch = ""
    /\ status_online_start_ts = BootTime
    /\ games_number = 1 /\ game_total_ts = 0
    /\ game_name_old = "GameA"
    /\ status_ts_old > BootTime
    /\ file = <<status_ts_old, "away">>

\* C34: while a game is recorded as in progress (game_name_old is not empty)
\* game_ts_old holds the time it was first observed, at the bootstrap or in
\* the poll where it appeared: it is never 0 and never earlier than the start
\* of the run, whatever the initial snapshot was, so the amount a later poll
\* adds for that game is the time since it was first observed
C34_GameSinceSetWhileGameRecorded ==
    (pc = "loop" /\ game_name_old # "")
       => game_ts_old # 0 /\ game_ts_old >= BootTime

\* C35: starting from a positive value, the active interval is strictly
\* positive after any sequence of SIGTRAP and SIGABRT (and the other signals
\* and polls between them), and a SIGABRT that comes right after a SIGTRAP
\* takes back exactly what the SIGTRAP added
C35_IntervalStaysPositive ==
    /\ [](active_check_interval > 0)
    /\ [][(SignalStep /\ outcome = "SIGTRAP" /\ outcome' = "SIGABRT")
             => active_check_interval'
                   = active_check_interval - XBOX_ACTIVE_CHECK_SIGNAL_VALUE]_vars
    /\ [][(SignalStep /\ outcome' = "SIGTRAP")
             => active_check_interval'
                   = active_check_interval + XBOX_ACTIVE_CHECK_SIGNAL_VALUE]_vars

\* started with -k 45: SIGTRAP made it 75 and the SIGABRT after it 45 again
C35_Witness ==
    /\ signals = 2
    /\ outcome = "SIGABRT"
    /\ active_check_interval = XBOX_ACTIVE_CHECK_SIGNAL_VALUE + 15
    /\ polls = 0

====
